---- MODULE Spec2Model ----
(***************************************************************************)
(* The URL shortener of src/main.py (the same three handlers are repeated  *)
(* in "src/Backend text submition/main.py"): a process-wide dict `urls`    *)
(* and the handlers create_short_url, redirect_url and stats.  The         *)
(* handlers are plain `def` endpoints, which the host runs on a pool of    *)
(* worker threads, so several handlers run at once and interleave between  *)
(* their statements.  Every action below is one handler statement (or a    *)
(* run of statements that touch only the handler's locals, joined to the   *)
(* shared access that follows them).                                       *)
(***************************************************************************)
EXTENDS Integers, Sequences, FiniteSets, TLC

\* ---------------------------------------------------------------- bounds
\* The clock runs from 0 to MaxTime minutes.
MaxTime == 1
\* At most MaxEntries entries are ever inserted into urls.
MaxEntries == 2
\* At most MaxClicks clicks are ever recorded.
MaxClicks == 2

\* ---------------------------------------------------------------- inputs
\* Python's None (an absent body field, an absent header, no value yet).
None == "<None>"
\* The worker threads serving requests, and the single worker of a run in
\* which no two requests overlap.
Threads == {"t1", "t2"}
SeqThreads == {"t1"}
\* Values of the request field `url`.
Urls == {"https://a.com", "https://b.com"}
\* Values of the request field `validity` (minutes).
Validities == {-1, 0, 1}
\* Values of the request field `shortcode`: absent, empty, or a string.
ShortcodeFields == {None, "", "abc12"}
\* The draws generate_shortcode() can make: 5 alphanumeric characters.  One
\* of them is also a shortcode that clients ask for.
GenCodes == {"abc12", "Zz9yX"}
\* Shortcodes in GET paths (a path segment is never empty).
PathCodes == {"abc12", "Zz9yX"}
\* Every shortcode that can become a key of urls.
AllCodes == (ShortcodeFields \ {None, ""}) \cup GenCodes
\* Values of the request header `referer`.
RefererHeaders == {None}
\* request.client.host
ClientHost == "127.0.0.1"
\* str(request.base_url).rstrip("/")
Host == "http://testserver"

\* ------------------------------------------------------------------ state
VARIABLES
    urls,   \* the dict `urls`: shortcode -> reference into heap
    heap,   \* the entry dicts ever built, by reference (position)
    now,    \* what datetime.utcnow() returns
    th,     \* each worker thread: position in its handler, locals, response
    hist    \* history, per shortcode: what the callers have seen so far

vars == <<urls, heap, now, th, hist>>

\* ---------------------------------------------------------------- helpers
\* datetime.isoformat(): the text of a timestamp.
isoformat(t) == <<"iso8601", t>>

\* generate_shortcode(): one random draw.
generate_shortcode == GenCodes

\* `data.shortcode or generate_shortcode()`: None and "" are both falsy.
ResolveShortcode(field, drawn) ==
    IF field = None \/ field = "" THEN drawn ELSE field

\* The calls of generate_shortcode() that expression makes: `or` evaluates
\* its right side only when the left is falsy.
Draws(field) == IF field = None \/ field = "" THEN 1 ELSE 0

\* request.headers.get("referer", "unknown")
Referrer(header) == IF header = None THEN "unknown" ELSE header

\* f"{host}/{shortcode}"
ShortLink(host, shortcode) == host \o "/" \o shortcode

\* NewEntry with the short link stored where the target belongs.
NewEntry_link(url, expiry) ==
    [url |-> Host \o "/" \o url, expiry |-> expiry, clicks |-> <<>>]

\* The entry dict built by create_short_url.
NewEntry(url, expiry) == [url |-> url, expiry |-> expiry, clicks |-> <<>>]

\* The click dict built by redirect_url.
ClickEvent(ts, header, host) ==
    [timestamp |-> ts, referrer |-> Referrer(header), ip |-> host]

\* IsExpired with the instant of expiry counted as expired.
IsExpired_inclusive(t, expiry) == t >= expiry

\* IsExpired with the comparison turned round.
IsExpired_reversed(t, expiry) == expiry > t

\* `datetime.utcnow() > entry["expiry"]`
IsExpired(t, expiry) == t > expiry

\* raise HTTPException(status_code=..., detail=...)
HTTPException(code, detail) == [status |-> code, body |-> [detail |-> detail]]

\* A thread between requests, before it has served any.
IdleThread ==
    [pc |-> "idle", op |-> "none", field |-> None, url |-> None,
     shortcode |-> None, draws |-> 0, validity |-> 0,
     expiry |-> 0, entry |-> 0, event |-> <<>>, total |-> 0,
     later |-> FALSE, status |-> 0, body |-> [detail |-> None]]

\* No response is waiting to go out.  Sending a response touches nothing
\* the handlers read, so it is taken as soon as the handler has finished.
Quiet == \A u \in DOMAIN th : th[u].pc # "done"

\* Thread t is about to run the statement at `label`.
At(t, label) == Quiet /\ th[t].pc = label

\* A thread can take a new request when it is not inside a handler.
Free(t) == At(t, "idle")

\* The entries inserted so far and those about to be.
Entries ==
    Len(heap) + Cardinality({u \in DOMAIN th :
                               th[u].pc \in {"create_expiry", "create_insert"}})

RECURSIVE SumClicks(_)
SumClicks(h) == IF h = <<>> THEN 0 ELSE Len(Head(h).clicks) + SumClicks(Tail(h))

\* The clicks recorded so far and those about to be.
Clicks ==
    SumClicks(heap) + Cardinality({u \in DOMAIN th :
                               th[u].pc \in {"redirect_stamp", "redirect_append"}})

\* The thread leaves its handler with a response; its locals are dropped.
Finish(me, resp) ==
    [IdleThread EXCEPT !.pc = "done", !.op = me.op, !.field = me.field,
                       !.url = me.url, !.shortcode = me.shortcode,
                       !.draws = me.draws,
                       !.status = resp.status, !.body = resp.body]

\* What the callers have seen of one shortcode: the successful Resolves, an
\* Expired answer, and the url and validity of the Create that succeeded.
NoHist == [ok |-> 0, expired |-> FALSE, url |-> None, validity |-> 0]

Init ==
    /\ urls = <<>>
    /\ heap = <<>>
    /\ now = 0
    /\ th = [t \in Threads |-> IdleThread]
    /\ hist = [k \in AllCodes |-> NoHist]

\* ------------------------------------------------------------------ clock
Tick ==
    /\ Quiet
    /\ now < MaxTime
    /\ now' = now + 1
    /\ UNCHANGED <<urls, heap, th, hist>>

\* ------------------------------------------------------- create_short_url
\* create_check with the slot of an expired link given out again.
create_check_reuse(t) ==
    /\ Free(t)
    /\ \E field \in ShortcodeFields, drawn \in generate_shortcode :
         LET shortcode == ResolveShortcode(field, drawn)
             me == [IdleThread EXCEPT !.op = "create", !.field = field,
                                      !.shortcode = shortcode,
                                      !.draws = Draws(field)]
         IN  IF /\ shortcode \in DOMAIN urls
                /\ ~IsExpired(now, heap[urls[shortcode]].expiry)
             THEN th' = [th EXCEPT ![t] =
                     Finish(me, HTTPException(400, "Shortcode already exists"))]
             ELSE /\ Entries < MaxEntries
                  /\ th' = [th EXCEPT ![t] = [me EXCEPT !.pc = "create_expiry"]]
    /\ UNCHANGED <<urls, heap, now, hist>>

\* create_check that draws a second code when the first is taken.
create_check_retry(t) ==
    /\ Free(t)
    /\ \E field \in ShortcodeFields, drawn \in generate_shortcode,
          again \in generate_shortcode :
         LET first == ResolveShortcode(field, drawn)
             retry == Draws(field) = 1 /\ first \in DOMAIN urls
             shortcode == IF retry THEN again ELSE first
             me == [IdleThread EXCEPT !.op = "create", !.field = field,
                                      !.shortcode = shortcode,
                                      !.draws = IF retry THEN 2
                                                ELSE Draws(field)]
         IN  IF shortcode \in DOMAIN urls
             THEN th' = [th EXCEPT ![t] =
                     Finish(me, HTTPException(400, "Shortcode already exists"))]
             ELSE /\ Entries < MaxEntries
                  /\ th' = [th EXCEPT ![t] = [me EXCEPT !.pc = "create_expiry"]]
    /\ UNCHANGED <<urls, heap, now, hist>>

\* Each field of the request body is drawn in the step that first reads it.
\* shortcode = data.shortcode or generate_shortcode()
\* if shortcode in urls: raise HTTPException(400)
create_check(t) ==
    /\ Free(t)
    /\ \E field \in ShortcodeFields, drawn \in generate_shortcode :
         LET shortcode == ResolveShortcode(field, drawn)
             me == [IdleThread EXCEPT !.op = "create", !.field = field,
                                      !.shortcode = shortcode,
                                      !.draws = Draws(field)]
         IN  IF shortcode \in DOMAIN urls
             THEN th' = [th EXCEPT ![t] =
                     Finish(me, HTTPException(400, "Shortcode already exists"))]
             ELSE /\ Entries < MaxEntries
                  /\ th' = [th EXCEPT ![t] = [me EXCEPT !.pc = "create_expiry"]]
    /\ UNCHANGED <<urls, heap, now, hist>>

\* create_expiry with a negative validity taken as its magnitude.
create_expiry_clamped(t) ==
    /\ At(t, "create_expiry")
    /\ \E validity \in Validities :
         th' = [th EXCEPT ![t].validity = validity,
                          ![t].expiry = now + (IF validity < 0 THEN -validity
                                                               ELSE validity),
                          ![t].pc = "create_insert"]
    /\ UNCHANGED <<urls, heap, now, hist>>

\* expiry = datetime.utcnow() + timedelta(minutes=data.validity)
create_expiry(t) ==
    /\ At(t, "create_expiry")
    /\ \E validity \in Validities :
         th' = [th EXCEPT ![t].validity = validity,
                          ![t].expiry = now + validity,
                          ![t].pc = "create_insert"]
    /\ UNCHANGED <<urls, heap, now, hist>>

\* create_insert that tests the key again and inserts only when it is free.
create_insert_locked(t) ==
    /\ At(t, "create_insert")
    /\ \E url \in Urls :
         LET me == [th[t] EXCEPT !.url = url] IN
         IF me.shortcode \in DOMAIN urls
         THEN /\ th' = [th EXCEPT ![t] =
                     Finish(me, HTTPException(400, "Shortcode already exists"))]
              /\ UNCHANGED <<urls, heap, hist>>
         ELSE /\ heap' = Append(heap, NewEntry(url, me.expiry))
              /\ urls' = (me.shortcode :> (Len(heap) + 1)) @@ urls
              /\ th' = [th EXCEPT ![t] = Finish(me,
                           [status |-> 200,
                            body |-> [shortLink |-> ShortLink(Host, me.shortcode),
                                      expiry |-> isoformat(me.expiry)]])]
              /\ hist' = [hist EXCEPT ![me.shortcode].url = url,
                                      ![me.shortcode].validity = me.validity]
    /\ UNCHANGED now

\* urls[shortcode] = {"url": ..., "expiry": ..., "clicks": []}
\* return UrlResponse(shortLink=f"{host}/{shortcode}", expiry=expiry.isoformat())
create_insert(t) ==
    /\ At(t, "create_insert")
    /\ \E url \in Urls :
         LET me == [th[t] EXCEPT !.url = url] IN
         /\ heap' = Append(heap, NewEntry(url, me.expiry))
         /\ urls' = (me.shortcode :> (Len(heap) + 1)) @@ urls
         /\ th' = [th EXCEPT ![t] = Finish(me,
                      [status |-> 200,
                       body |-> [shortLink |-> ShortLink(Host, me.shortcode),
                                 expiry |-> isoformat(me.expiry)]])]
         /\ hist' = [hist EXCEPT ![me.shortcode].url = url,
                                 ![me.shortcode].validity = me.validity]
    /\ UNCHANGED now

\* ----------------------------------------------------------- redirect_url
\* redirect_lookup that reports an unknown shortcode as an expired link.
redirect_lookup_gone(t) ==
    /\ Free(t)
    /\ \E shortcode \in PathCodes :
         LET me == [IdleThread EXCEPT !.op = "redirect",
                                      !.shortcode = shortcode,
                                      !.later = hist[shortcode].expired]
         IN  th' = [th EXCEPT ![t] =
                      IF shortcode \notin DOMAIN urls
                      THEN Finish(me, HTTPException(410, "Link expired"))
                      ELSE [me EXCEPT !.pc = "redirect_check",
                                      !.entry = urls[shortcode]]]
    /\ UNCHANGED <<urls, heap, now, hist>>

\* if shortcode not in urls: raise HTTPException(404)
\* entry = urls[shortcode]
\* (No key ever leaves urls, so the membership test and the lookup that
\* follows it see the same key set; they are one step.)
redirect_lookup(t) ==
    /\ Free(t)
    /\ \E shortcode \in PathCodes :
         LET me == [IdleThread EXCEPT !.op = "redirect",
                                      !.shortcode = shortcode,
                                      !.later = hist[shortcode].expired]
         IN  th' = [th EXCEPT ![t] =
                      IF shortcode \notin DOMAIN urls
                      THEN Finish(me, HTTPException(404, "Shortcode not found"))
                      ELSE [me EXCEPT !.pc = "redirect_check",
                                      !.entry = urls[shortcode]]]
    /\ UNCHANGED <<urls, heap, now, hist>>

\* redirect_check with the click recorded before the expiry test.
redirect_check_counts_first(t) ==
    /\ At(t, "redirect_check")
    /\ LET me == th[t] IN
         IF IsExpired(now, heap[me.entry].expiry)
         THEN /\ th' = [th EXCEPT ![t] =
                          Finish(me, HTTPException(410, "Link expired"))]
              /\ heap' = [heap EXCEPT ![me.entry].clicks =
                            Append(@, ClickEvent(isoformat(now), None, ClientHost))]
              /\ hist' = [hist EXCEPT ![me.shortcode].expired = TRUE]
         ELSE /\ Clicks < MaxClicks
              /\ th' = [th EXCEPT ![t].pc = "redirect_stamp"]
              /\ UNCHANGED <<heap, hist>>
    /\ UNCHANGED <<urls, now>>

\* if datetime.utcnow() > entry["expiry"]: raise HTTPException(410)
redirect_check(t) ==
    /\ At(t, "redirect_check")
    /\ LET me == th[t] IN
         IF IsExpired(now, heap[me.entry].expiry)
         THEN /\ th' = [th EXCEPT ![t] =
                          Finish(me, HTTPException(410, "Link expired"))]
              /\ hist' = [hist EXCEPT ![me.shortcode].expired = TRUE]
         ELSE /\ Clicks < MaxClicks
              /\ th' = [th EXCEPT ![t].pc = "redirect_stamp"]
              /\ hist' = hist
    /\ UNCHANGED <<urls, heap, now>>

\* The argument of append is built first: {"timestamp":
\* datetime.utcnow().isoformat(), "referrer": ..., "ip": ...}
redirect_stamp(t) ==
    /\ At(t, "redirect_stamp")
    /\ \E referer \in RefererHeaders :
         th' = [th EXCEPT ![t].event =
                    ClickEvent(isoformat(now), referer, ClientHost),
                          ![t].pc = "redirect_append"]
    /\ UNCHANGED <<urls, heap, now, hist>>

\* redirect_append that extends a copy of the list and leaves the entry alone.
redirect_append_copy(t) ==
    /\ At(t, "redirect_append")
    /\ LET me == th[t] IN
         /\ th' = [th EXCEPT ![t] = Finish(me,
                      [status |-> 200,
                       body |-> [redirect_to |-> heap[me.entry].url]])]
         /\ hist' = [hist EXCEPT ![me.shortcode].ok = @ + 1]
    /\ UNCHANGED <<urls, heap, now>>

\* entry["clicks"].append(...)
\* return {"redirect_to": entry["url"]}
redirect_append(t) ==
    /\ At(t, "redirect_append")
    /\ LET me == th[t] IN
         /\ heap' = [heap EXCEPT ![me.entry].clicks = Append(@, me.event)]
         /\ th' = [th EXCEPT ![t] = Finish(me,
                      [status |-> 200,
                       body |-> [redirect_to |-> heap[me.entry].url]])]
         /\ hist' = [hist EXCEPT ![me.shortcode].ok = @ + 1]
    /\ UNCHANGED <<urls, now>>

\* ------------------------------------------------------------------ stats
\* stats_lookup that refuses an expired link the way redirect_url does.
stats_lookup_expiring(t) ==
    /\ Free(t)
    /\ \E shortcode \in PathCodes :
         LET me == [IdleThread EXCEPT !.op = "stats",
                                      !.shortcode = shortcode]
         IN  th' = [th EXCEPT ![t] =
                      IF shortcode \notin DOMAIN urls
                      THEN Finish(me, HTTPException(404, "Shortcode not found"))
                      ELSE IF IsExpired(now, heap[urls[shortcode]].expiry)
                      THEN Finish(me, HTTPException(410, "Link expired"))
                      ELSE [me EXCEPT !.pc = "stats_build",
                                      !.entry = urls[shortcode]]]
    /\ UNCHANGED <<urls, heap, now, hist>>

\* if shortcode not in urls: raise HTTPException(404)
\* entry = urls[shortcode]
stats_lookup(t) ==
    /\ Free(t)
    /\ \E shortcode \in PathCodes :
         LET me == [IdleThread EXCEPT !.op = "stats",
                                      !.shortcode = shortcode]
         IN  th' = [th EXCEPT ![t] =
                      IF shortcode \notin DOMAIN urls
                      THEN Finish(me, HTTPException(404, "Shortcode not found"))
                      ELSE [me EXCEPT !.pc = "stats_build",
                                      !.entry = urls[shortcode]]]
    /\ UNCHANGED <<urls, heap, now, hist>>

\* return {"url": ..., "expiry": ..., "total_clicks": len(entry["clicks"]),
\*         "click_data": entry["clicks"]}
\* total_clicks is a number taken now; click_data is the list itself.
stats_build(t) ==
    /\ At(t, "stats_build")
    /\ th' = [th EXCEPT ![t].total = Len(heap[th[t].entry].clicks),
                        ![t].pc = "stats_serialize"]
    /\ UNCHANGED <<urls, heap, now, hist>>

\* The returned dict is encoded into the response after the handler has
\* returned: the list behind click_data is read then.
stats_serialize(t) ==
    /\ At(t, "stats_serialize")
    /\ LET me == th[t]
           entry == heap[me.entry]
       IN  th' = [th EXCEPT ![t] = Finish(me,
                     [status |-> 200,
                      body |-> [url |-> entry.url,
                                expiry |-> isoformat(entry.expiry),
                                total_clicks |-> me.total,
                                click_data |-> entry.clicks]])]
    /\ UNCHANGED <<urls, heap, now, hist>>

\* ------------------------------------------------------------- responses
\* The response of a finished handler goes out to the client and the
\* thread is free again.
respond(t) ==
    /\ th[t].pc = "done"
    /\ th' = [th EXCEPT ![t] = IdleThread]
    /\ UNCHANGED <<urls, heap, now, hist>>

\* --------------------------------------------------------- specifications
Step(t) ==
    \/ create_check(t)
    \/ create_expiry(t)
    \/ create_insert(t)
    \/ redirect_lookup(t)
    \/ redirect_check(t)
    \/ redirect_stamp(t)
    \/ redirect_append(t)
    \/ stats_lookup(t)
    \/ stats_build(t)
    \/ stats_serialize(t)
    \/ respond(t)

\* Handlers of several requests interleave.
Next == Tick \/ \E t \in Threads : Step(t)

Spec == Init /\ [][Next]_vars

\* One request at a time: each handler runs to its response before the
\* next request is taken.
SeqNext == Tick \/ \E t \in SeqThreads : Step(t)

SeqSpec == Init /\ [][SeqNext]_vars

\* ------------------------------------------------------------------ claims
\* Thread t takes this step.
Moved(t) == th'[t] # th[t]

\* Thread t holds the response of a finished `op` request.
Done(t, op) == th[t].pc = "done" /\ th[t].op = op

\* The entry urls holds for shortcode k.
Record(k) == heap[urls[k]]

\* Sequence a is the beginning of sequence b.
IsPrefix(a, b) == Len(a) <= Len(b) /\ SubSeq(b, 1, Len(a)) = a

\* C1: a Create whose resolved shortcode is already a key of urls, active or
\* expired, answers 400 and changes neither urls nor any entry.
C1_DuplicateRejected ==
    [][\A t \in Threads :
         ( /\ th[t].pc = "idle"
           /\ th'[t].op = "create"
           /\ th'[t].shortcode \in DOMAIN urls )
         => ( /\ th'[t].pc = "done"
              /\ th'[t].status = 400
              /\ urls' = urls
              /\ heap' = heap )]_vars

\* A Create was refused on a shortcode whose link has expired and has clicks.
C1_Witness ==
    \E t \in Threads :
        /\ Done(t, "create")
        /\ th[t].status = 400
        /\ now > Record(th[t].shortcode).expiry
        /\ Record(th[t].shortcode).clicks # <<>>

\* C2: with one request at a time, a Resolve whose expiry test reads a time
\* not after expiresAt goes on to record exactly one click on its entry and
\* answers 200 with the target; the click count of a shortcode equals the
\* number of Resolve calls on it that succeeded.
C2_ResolveRecordsClick ==
    /\ [](\A k \in DOMAIN urls : Len(Record(k).clicks) = hist[k].ok)
    /\ [][\A t \in Threads : Moved(t) =>
            /\ ( th[t].pc = "redirect_check"
                 /\ now <= heap[th[t].entry].expiry )
               => (th'[t].pc = "redirect_stamp" /\ heap' = heap)
            /\ th[t].pc = "redirect_stamp"
               => (th'[t].pc = "redirect_append" /\ heap' = heap)
            /\ th[t].pc = "redirect_append"
               => LET e == th[t].entry IN
                  /\ th'[t].pc = "done"
                  /\ th'[t].status = 200
                  /\ th'[t].body = [redirect_to |-> heap[e].url]
                  /\ Len(heap') = Len(heap)
                  /\ \A i \in DOMAIN heap : i # e => heap'[i] = heap[i]
                  /\ heap'[e].url = heap[e].url
                  /\ heap'[e].expiry = heap[e].expiry
                  /\ Len(heap'[e].clicks) = Len(heap[e].clicks) + 1
                  /\ IsPrefix(heap[e].clicks, heap'[e].clicks)]_vars

\* The second successful Resolve of a link has answered.
C2_Witness ==
    \E t \in Threads :
        /\ Done(t, "redirect")
        /\ th[t].status = 200
        /\ hist[th[t].shortcode].ok = 2
        /\ Len(Record(th[t].shortcode).clicks) = 2

\* C3: a Resolve whose expiry test reads a time strictly after expiresAt
\* answers 410 and leaves urls and every entry, clicks included, as they were;
\* the lookup before the test changes nothing either.
C3_ExpiredResolveRejected ==
    [][\A t \in Threads : Moved(t) =>
         /\ ( th[t].pc = "redirect_check"
              /\ now > heap[th[t].entry].expiry )
            => ( /\ th'[t].pc = "done"
                 /\ th'[t].status = 410
                 /\ urls' = urls
                 /\ heap' = heap )
         /\ ( th[t].pc = "idle" /\ th'[t].op = "redirect" )
            => (urls' = urls /\ heap' = heap)]_vars

\* A Resolve was refused as expired on a link that had been clicked before.
C3_Witness ==
    \E t \in Threads :
        /\ Done(t, "redirect")
        /\ th[t].status = 410
        /\ Record(th[t].shortcode).clicks # <<>>

\* C4: with one request at a time, GetStats answers 404 exactly for a
\* shortcode that is no key of urls, and otherwise 200 with total_clicks and
\* the length of click_data both equal to the number of successful Resolve
\* calls on that shortcode.
C4_StatsCountsResolves ==
    \A t \in Threads : Done(t, "stats") =>
        IF th[t].shortcode \notin DOMAIN urls
        THEN th[t].status = 404
        ELSE /\ th[t].status = 200
             /\ th[t].body.total_clicks = hist[th[t].shortcode].ok
             /\ Len(th[t].body.click_data) = hist[th[t].shortcode].ok

\* GetStats has answered for an expired link with two clicks.
C4_Witness ==
    \E t \in Threads :
        /\ Done(t, "stats")
        /\ th[t].status = 200
        /\ th[t].body.total_clicks = 2
        /\ now > Record(th[t].shortcode).expiry

\* C5: a shortcode keeps the entry it was first given, and the target and
\* expiresAt of that entry never change, in every step of every interleaving.
C5_RecordNeverReassigned ==
    [][\A k \in DOMAIN urls :
         /\ k \in DOMAIN urls'
         /\ urls'[k] = urls[k]
         /\ heap'[urls[k]].url = heap[urls[k]].url
         /\ heap'[urls[k]].expiry = heap[urls[k]].expiry]_vars

\* C6: in every step of every interleaving the click log urls holds for a
\* shortcode before the step is a prefix of the one it holds after.
C6_ClicksOnlyGrow ==
    [][\A k \in DOMAIN urls :
         /\ k \in DOMAIN urls'
         /\ IsPrefix(Record(k).clicks, heap'[urls'[k]].clicks)]_vars

\* C7: once a Resolve of a shortcode has answered 410, no Resolve of it that
\* begins later passes the expiry test, and the shortcode stays a key of urls.
C7_ExpiryIsFinal ==
    /\ \A t \in Threads :
         th[t].later => th[t].pc \notin {"redirect_stamp", "redirect_append"}
    /\ \A k \in DOMAIN hist : hist[k].expired => k \in DOMAIN urls

\* C8: nothing ties the existence test to the insert: a Create passes the
\* test whenever the shortcode is no key at that moment, whatever other
\* handlers are doing, and its insert always writes a fresh entry under the
\* shortcode and answers 200, also when another Create has put an entry
\* there since the test.
C8_CheckThenInsertNotAtomic ==
    [][\A t \in Threads : Moved(t) =>
         /\ ( /\ th[t].pc = "idle"
              /\ th'[t].op = "create"
              /\ th'[t].shortcode \notin DOMAIN urls )
            => th'[t].pc = "create_expiry"
         /\ th[t].pc = "create_insert"
            => ( /\ th'[t].pc = "done"
                 /\ th'[t].status = 200
                 /\ Len(heap') = Len(heap) + 1
                 /\ IsPrefix(heap, heap')
                 /\ heap'[Len(heap')] = [url |-> th'[t].url,
                                         expiry |-> th[t].expiry,
                                         clicks |-> <<>>]
                 /\ th[t].shortcode \in DOMAIN urls'
                 /\ urls'[th[t].shortcode] = Len(heap') )]_vars

\* Two Creates of one shortcode have both answered 200 and the entry of the
\* first is gone from urls: the second entry, with another target, took its
\* place.
C8_Witness ==
    \E t \in Threads :
        /\ Done(t, "create")
        /\ th[t].status = 200
        /\ DOMAIN urls = {th[t].shortcode}
        /\ Len(heap) = 2
        /\ urls[th[t].shortcode] = 2
        /\ heap[1].url # heap[2].url

C10_NonPositiveAlwaysExpired ==
    \A t \in Threads :
        ( /\ Done(t, "redirect")
          /\ th[t].shortcode \in DOMAIN urls
          /\ hist[th[t].shortcode].validity <= 0 )
        => ( /\ th[t].status = 410
             /\ Record(th[t].shortcode).clicks = <<>> )

\* C10, amended: with one request at a time, a Create is accepted whatever
\* its validity and stores expiresAt = creation time + validity.  A link of
\* negative validity is expired from the start: every Resolve answers 410 and
\* it never has a click.  A link of validity 0 expires at its creation time:
\* a Resolve answers 410 exactly when its expiry test reads a later time.
C10_NonPositiveValidity ==
    /\ [](\A k \in DOMAIN urls :
            /\ hist[k].validity <= 0 => Record(k).expiry <= now
            /\ hist[k].validity < 0
               => (Record(k).expiry < now /\ Record(k).clicks = <<>>))
    /\ [][\A t \in Threads : Moved(t) =>
            /\ th[t].pc = "create_expiry"
               => th'[t].expiry = now + th'[t].validity
            /\ th[t].pc = "create_insert"
               => ( /\ th'[t].status = 200
                    /\ th[t].shortcode \in DOMAIN urls'
                    /\ heap'[urls'[th[t].shortcode]].expiry = th[t].expiry
                    /\ hist'[th[t].shortcode].validity = th[t].validity )
            /\ th[t].pc = "redirect_check"
               => LET k == th[t].shortcode
                      refused == th'[t].pc = "done" /\ th'[t].status = 410
                  IN  /\ hist[k].validity < 0 => refused
                      /\ hist[k].validity = 0
                         => (refused <=> now > Record(k).expiry)]_vars

\* A Resolve of a link created with negative validity was refused as expired.
C10_Witness ==
    \E t \in Threads :
        /\ Done(t, "redirect")
        /\ th[t].status = 410
        /\ hist[th[t].shortcode].validity < 0

\* C11: GetStats never tests the expiry and never writes: every step of the
\* stats handler leaves urls and every entry unchanged, a GetStats of a
\* shortcode that is a key goes on whether the link is expired or not, and
\* its answer is 200 with the url, the expiry in ISO form and the whole click
\* list of the entry it looked up.
C11_StatsReadsOnly ==
    [][\A t \in Threads : Moved(t) =>
         /\ ( th[t].pc = "idle" /\ th'[t].op = "stats" )
            => ( /\ urls' = urls
                 /\ heap' = heap
                 /\ IF th'[t].shortcode \in DOMAIN urls
                    THEN /\ th'[t].pc = "stats_build"
                         /\ th'[t].entry = urls[th'[t].shortcode]
                    ELSE th'[t].pc = "done" /\ th'[t].status = 404 )
         /\ th[t].pc = "stats_build"
            => (th'[t].pc = "stats_serialize" /\ urls' = urls /\ heap' = heap)
         /\ th[t].pc = "stats_serialize"
            => ( /\ urls' = urls
                 /\ heap' = heap
                 /\ th'[t].pc = "done"
                 /\ th'[t].status = 200
                 /\ th'[t].body.url = heap[th[t].entry].url
                 /\ th'[t].body.expiry = isoformat(heap[th[t].entry].expiry)
                 /\ th'[t].body.click_data = heap[th[t].entry].clicks )]_vars

\* GetStats has answered 200 for a link that is expired, with its url, its
\* expiry and a click list that is not empty.
C11_Witness ==
    \E t \in Threads :
        /\ Done(t, "stats")
        /\ th[t].status = 200
        /\ IsExpired(now, Record(th[t].shortcode).expiry)
        /\ th[t].body.url = Record(th[t].shortcode).url
        /\ th[t].body.expiry = isoformat(Record(th[t].shortcode).expiry)
        /\ th[t].body.click_data = Record(th[t].shortcode).clicks
        /\ th[t].body.click_data # <<>>

\* Thread t ends its handler in this step with the given status.
Answers(t, code) == th'[t].pc = "done" /\ th'[t].status = code

\* C12: every request ends in one of its documented results, decided in a
\* fixed order.  Create: 400 iff the resolved shortcode is a key of urls,
\* else it goes on to 200.  Resolve: 404 iff the shortcode is no key; else
\* 410 iff the clock read is strictly after the expiry; else it goes on to
\* 200.  GetStats: 404 iff the shortcode is no key, else it goes on to 200.
\* 410 is only ever answered for a shortcode that was created and 404 only
\* for one that never was.
C12_OutcomesInOrder ==
    /\ [](\A t \in Threads :
            /\ Done(t, "create") => th[t].status \in {200, 400}
            /\ Done(t, "redirect") => th[t].status \in {200, 404, 410}
            /\ Done(t, "stats") => th[t].status \in {200, 404}
            /\ (th[t].pc = "done" /\ th[t].status = 404)
               => ( /\ th[t].shortcode \notin DOMAIN urls
                    /\ hist[th[t].shortcode].url = None )
            /\ (th[t].pc = "done" /\ th[t].status = 410)
               => ( /\ th[t].op = "redirect"
                    /\ th[t].shortcode \in DOMAIN urls
                    /\ hist[th[t].shortcode].url # None ))
    /\ [][\A t \in Threads : Moved(t) =>
            /\ ( th[t].pc = "idle" /\ th'[t].op = "create" )
               => IF th'[t].shortcode \in DOMAIN urls
                  THEN Answers(t, 400)
                  ELSE th'[t].pc = "create_expiry"
            /\ th[t].pc = "create_expiry" => th'[t].pc = "create_insert"
            /\ th[t].pc = "create_insert" => Answers(t, 200)
            /\ ( th[t].pc = "idle" /\ th'[t].op = "redirect" )
               => IF th'[t].shortcode \notin DOMAIN urls
                  THEN Answers(t, 404)
                  ELSE th'[t].pc = "redirect_check"
            /\ th[t].pc = "redirect_check"
               => IF now > heap[th[t].entry].expiry
                  THEN Answers(t, 410)
                  ELSE th'[t].pc = "redirect_stamp"
            /\ th[t].pc = "redirect_stamp" => th'[t].pc = "redirect_append"
            /\ th[t].pc = "redirect_append" => Answers(t, 200)
            /\ ( th[t].pc = "idle" /\ th'[t].op = "stats" )
               => IF th'[t].shortcode \notin DOMAIN urls
                  THEN Answers(t, 404)
                  ELSE th'[t].pc = "stats_build"
            /\ th[t].pc = "stats_build" => th'[t].pc = "stats_serialize"
            /\ th[t].pc = "stats_serialize" => Answers(t, 200)]_vars

\* A Resolve answered 404 for a shortcode never created, after a Resolve of
\* another shortcode, which was created, had answered 410.
C12_Witness ==
    \E t \in Threads : \E k \in DOMAIN urls :
        /\ Done(t, "redirect")
        /\ th[t].status = 404
        /\ th[t].shortcode # k
        /\ hist[k].expired
        /\ ~hist[th[t].shortcode].expired

\* C13: a shortcode field that is present in a Create request, the empty
\* string included, is the shortcode used: no code is generated, and on
\* success the entry is stored under that very string and the short link is
\* the base address, "/" and that string.
C13_ShortcodeVerbatim ==
    \A t \in Threads :
        (Done(t, "create") /\ th[t].field # None)
        => ( /\ th[t].shortcode = th[t].field
             /\ th[t].draws = 0
             /\ th[t].status = 200
                => ( /\ th[t].field \in DOMAIN urls
                     /\ th[t].body.shortLink = ShortLink(Host, th[t].field) ) )

\* C14: a Create without a shortcode field calls generate_shortcode() exactly
\* once and uses the code it drew, a string of 5 characters; when that code
\* is already a key of urls the request ends with 400 on that one draw, with
\* urls and every entry unchanged, as for a shortcode given in the request.
C14_GeneratedCollisionNotRetried ==
    [][\A t \in Threads :
         ( /\ th[t].pc = "idle"
           /\ th'[t].op = "create"
           /\ th'[t].field = None )
         => ( /\ th'[t].draws = 1
              /\ th'[t].shortcode \in generate_shortcode
              /\ Len(th'[t].shortcode) = 5
              /\ IF th'[t].shortcode \in DOMAIN urls
                 THEN /\ Answers(t, 400)
                      /\ th'[t].body = [detail |-> "Shortcode already exists"]
                      /\ urls' = urls
                      /\ heap' = heap
                 ELSE th'[t].pc = "create_expiry" )]_vars

\* A Create without a shortcode field was refused with 400 after its one
\* draw, while the other code it could have drawn is still free.
C14_Witness ==
    \E t \in Threads :
        /\ Done(t, "create")
        /\ th[t].field = None
        /\ th[t].status = 400
        /\ th[t].draws = 1
        /\ th[t].shortcode \in DOMAIN urls
        /\ generate_shortcode \ DOMAIN urls # {}

\* C15: the instant of expiry still belongs to the link.  A Resolve whose
\* expiry test reads a time equal to the expiry passes the test, builds its
\* click, appends it to the entry and answers 200; a Resolve is answered 410
\* only when its expiry test reads a time strictly after the expiry.
C15_BoundaryInclusive ==
    [][\A t \in Threads : Moved(t) =>
         /\ ( th[t].pc = "redirect_check"
              /\ now = heap[th[t].entry].expiry )
            => th'[t].pc = "redirect_stamp"
         /\ ( th[t].pc = "redirect_check" /\ Answers(t, 410) )
            => now > heap[th[t].entry].expiry
         /\ th[t].pc = "redirect_stamp"
            => ( /\ th'[t].pc = "redirect_append"
                 /\ th'[t].event.timestamp = isoformat(now) )
         /\ th[t].pc = "redirect_append"
            => ( /\ Answers(t, 200)
                 /\ heap'[th[t].entry].clicks =
                        Append(heap[th[t].entry].clicks, th[t].event) )]_vars

\* A Resolve made at the very instant of expiry, after the clock had moved on
\* from the creation, answered 200 and its click is the last of the link.
C15_Witness ==
    \E t \in Threads :
        /\ Done(t, "redirect")
        /\ th[t].status = 200
        /\ hist[th[t].shortcode].validity > 0
        /\ now = Record(th[t].shortcode).expiry
        /\ Record(th[t].shortcode).clicks # <<>>
        /\ LET c == Record(th[t].shortcode).clicks
           IN  c[Len(c)].timestamp = isoformat(now)

\* The instant an ISO text written by isoformat stands for.
InstantOf(text) == text[2]

\* The timestamps of a click list never step back from one click to the next.
Chronological(clicks) ==
    \A i \in 1..(Len(clicks) - 1) :
        InstantOf(clicks[i].timestamp) <= InstantOf(clicks[i + 1].timestamp)

\* C16: in every reachable state, also with several Resolve handlers of one
\* shortcode running at once, the click list of every shortcode is in
\* chronological order.
C16_ClicksChronological ==
    \A k \in DOMAIN urls : Chronological(Record(k).clicks)

\* C17: no click of a link carries a timestamp after the expiry of the link,
\* although the handler reads the clock once for the expiry test and again
\* for the timestamp.
C17_ClickWithinValidity ==
    \A k \in DOMAIN urls :
        \A i \in DOMAIN Record(k).clicks :
            InstantOf(Record(k).clicks[i].timestamp) <= Record(k).expiry

\* C18: a step of a handler working on shortcode s keeps every key of urls,
\* leaves the entry of every other key as it was, and changes the key set
\* only when it is the insert of a Create, which answers 200 and adds
\* exactly one key, s.
C18_OwnRecordOnly ==
    [][\A t \in Threads : Moved(t) =>
         LET s == IF th[t].pc = "idle" THEN th'[t].shortcode
                                       ELSE th[t].shortcode
         IN  /\ \A k \in DOMAIN urls :
                  /\ k \in DOMAIN urls'
                  /\ k # s => ( /\ urls'[k] = urls[k]
                                /\ heap'[urls'[k]] = heap[urls[k]] )
             /\ IF th[t].pc = "create_insert"
                THEN /\ Answers(t, 200)
                     /\ s \notin DOMAIN urls
                     /\ DOMAIN urls' = DOMAIN urls \cup {s}
                ELSE DOMAIN urls' = DOMAIN urls]_vars

====
